---- MODULE Spec2Model ----
(***************************************************************************)
(* LinuxTrainer CLI: the answer matcher (checker.py) and the session       *)
(* runner (trainer.py, main and load_levels).                              *)
(*                                                                         *)
(* A Python str is a sequence of one-character strings, so that strip,     *)
(* split, join and lower are computed character by character.              *)
(***************************************************************************)
EXTENDS Integers, Sequences, FiniteSets, TLC

(***************************************************************************)
(* Bounds of the model.                                                    *)
(***************************************************************************)
\* input() calls one session may make
MaxInputs == 4
\* tokens in a line handed to the matcher on its own
MaxTokens == 3

(***************************************************************************)
(* Python str and list built-ins.                                          *)
(***************************************************************************)
\* the value None: no str equals it, a str holds one-character strings only
None == <<"None">>

\* characters str.strip() and str.split() treat as whitespace
Whitespace == {" ", "\t"}

\* bool(x) of an optional str: None and "" are falsy
Truthy(x) == x /= None /\ x /= <<>>

RECURSIVE str_lstrip(_)
str_lstrip(s) ==
    IF s = <<>> THEN <<>>
    ELSE IF Head(s) \in Whitespace THEN str_lstrip(Tail(s))
    ELSE s

RECURSIVE str_rstrip(_)
str_rstrip(s) ==
    IF s = <<>> THEN <<>>
    ELSE IF s[Len(s)] \in Whitespace THEN str_rstrip(SubSeq(s, 1, Len(s) - 1))
    ELSE s

\* s.strip()
str_strip(s) == str_rstrip(str_lstrip(s))

\* s.split() scanning s: cur is the token being read, toks the tokens so far
RECURSIVE SplitScan(_, _, _)
SplitScan(s, cur, toks) ==
    LET closed == IF cur = <<>> THEN toks ELSE Append(toks, cur)
    IN  IF s = <<>> THEN closed
        ELSE IF Head(s) \in Whitespace THEN SplitScan(Tail(s), <<>>, closed)
        ELSE SplitScan(Tail(s), Append(cur, Head(s)), toks)

\* s.split(): the maximal runs of non-whitespace characters
str_split(s) == SplitScan(s, <<>>, <<>>)

\* sep.join(toks)
RECURSIVE str_join(_, _)
str_join(sep, toks) ==
    IF toks = <<>> THEN <<>>
    ELSE IF Len(toks) = 1 THEN toks[1]
    ELSE toks[1] \o sep \o str_join(sep, Tail(toks))

\* c.lower() for one character
LowerChar(c) ==
    CASE c = "E" -> "e" [] c = "X" -> "x" [] c = "I" -> "i" [] c = "T" -> "t"
      [] c = "Q" -> "q" [] c = "U" -> "u" [] c = "H" -> "h" [] c = "N" -> "n"
      [] c = "L" -> "l" [] c = "S" -> "s"
      [] OTHER -> c

\* s.lower()
str_lower(s) == [i \in 1..Len(s) |-> LowerChar(s[i])]

(***************************************************************************)
(* The words of the model, as strs.                                        *)
(***************************************************************************)
w_exit == <<"e", "x", "i", "t">>
w_quit == <<"q", "u", "i", "t">>
w_hint == <<"h", "i", "n", "t">>
w_pwd == <<"p", "w", "d">>
w_ls == <<"l", "s">>
w_whoami == <<"w", "h", "o", "a", "m", "i">>
w_echo == <<"e", "c", "h", "o">>
w_clear == <<"c", "l", "e", "a", "r">>
w_date == <<"d", "a", "t", "e">>
w_history == <<"h", "i", "s", "t", "o", "r", "y">>
w_nano == <<"n", "a", "n", "o">>
w_vi == <<"v", "i">>
w_cd == <<"c", "d">>
w_wrong == <<"w", "r", "o", "n", "g">>
w_l == <<"-", "l">>
w_5 == <<"5">>
w_f == <<"f">>
w_g == <<"g">>
SP == <<" ">>
TAB == <<"\t">>

(***************************************************************************)
(* checker.py                                                              *)
(***************************************************************************)
\* normalisation that trims but does not collapse inner whitespace
normalise_strip_only(cmd) == str_strip(cmd)

normalise_command(cmd) == str_join(SP, str_split(str_strip(cmd)))

\* the guard written as "if expected_command is None"
NothingExpected_NoneOnly(expected_command) == expected_command = None

\* the guard "if not expected_command: return False"
NothingExpected(expected_command) == ~Truthy(expected_command)

\* rules 2 and 3 testing the base of the expected command, not the whole of it
MatchRules_symmetric_tolerance(user_input, expected_command) ==
    LET user_norm == normalise_command(user_input)
        expected_norm == normalise_command(expected_command)
        user_parts == str_split(user_norm)
        expected_parts == str_split(expected_norm)
        user_base == IF user_parts /= <<>> THEN user_parts[1] ELSE <<>>
        expected_base == IF expected_parts /= <<>> THEN expected_parts[1] ELSE <<>>
    IN  IF user_norm = expected_norm THEN TRUE
        ELSE IF expected_base = w_ls /\ user_base = w_ls THEN TRUE
        ELSE IF expected_base = w_history /\ user_base = w_history THEN TRUE
        ELSE IF /\ expected_base = w_nano
                /\ user_base \in {w_nano, w_vi}
                /\ Len(expected_parts) > 1
                /\ Len(user_parts) > 1
             THEN expected_parts[2] = user_parts[2]
        ELSE FALSE

\* rule 4 without the comparison of the filenames
MatchRules_any_filename(user_input, expected_command) ==
    LET user_norm == normalise_command(user_input)
        expected_norm == normalise_command(expected_command)
        user_parts == str_split(user_norm)
        expected_parts == str_split(expected_norm)
        user_base == IF user_parts /= <<>> THEN user_parts[1] ELSE <<>>
        expected_base == IF expected_parts /= <<>> THEN expected_parts[1] ELSE <<>>
    IN  IF user_norm = expected_norm THEN TRUE
        ELSE IF expected_norm = w_ls /\ user_base = w_ls THEN TRUE
        ELSE IF expected_norm = w_history /\ user_base = w_history THEN TRUE
        ELSE IF /\ expected_base = w_nano
                /\ user_base \in {w_nano, w_vi}
                /\ Len(expected_parts) > 1
                /\ Len(user_parts) > 1
             THEN TRUE
        ELSE FALSE

\* rule 2 without the test of the user's base command
MatchRules_no_user_base(user_input, expected_command) ==
    LET user_norm == normalise_command(user_input)
        expected_norm == normalise_command(expected_command)
        user_parts == str_split(user_norm)
        expected_parts == str_split(expected_norm)
        user_base == IF user_parts /= <<>> THEN user_parts[1] ELSE <<>>
        expected_base == IF expected_parts /= <<>> THEN expected_parts[1] ELSE <<>>
    IN  IF user_norm = expected_norm THEN TRUE
        ELSE IF expected_norm = w_ls THEN TRUE
        ELSE IF expected_norm = w_history /\ user_base = w_history THEN TRUE
        ELSE IF /\ expected_base = w_nano
                /\ user_base \in {w_nano, w_vi}
                /\ Len(expected_parts) > 1
                /\ Len(user_parts) > 1
             THEN expected_parts[2] = user_parts[2]
        ELSE FALSE

\* rules 1 and 4 only: no tolerance for ls and history
MatchRules_exact_only(user_input, expected_command) ==
    LET user_norm == normalise_command(user_input)
        expected_norm == normalise_command(expected_command)
        user_parts == str_split(user_norm)
        expected_parts == str_split(expected_norm)
        user_base == IF user_parts /= <<>> THEN user_parts[1] ELSE <<>>
        expected_base == IF expected_parts /= <<>> THEN expected_parts[1] ELSE <<>>
    IN  IF user_norm = expected_norm THEN TRUE
        ELSE IF /\ expected_base = w_nano
                /\ user_base \in {w_nano, w_vi}
                /\ Len(expected_parts) > 1
                /\ Len(user_parts) > 1
             THEN expected_parts[2] = user_parts[2]
        ELSE FALSE

\* rules 2 to 4 only: rule 1 left out
MatchRules_no_exact(user_input, expected_command) ==
    LET user_norm == normalise_command(user_input)
        expected_norm == normalise_command(expected_command)
        user_parts == str_split(user_norm)
        expected_parts == str_split(expected_norm)
        user_base == IF user_parts /= <<>> THEN user_parts[1] ELSE <<>>
        expected_base == IF expected_parts /= <<>> THEN expected_parts[1] ELSE <<>>
    IN  IF expected_norm = w_ls /\ user_base = w_ls THEN TRUE
        ELSE IF expected_norm = w_history /\ user_base = w_history THEN TRUE
        ELSE IF /\ expected_base = w_nano
                /\ user_base \in {w_nano, w_vi}
                /\ Len(expected_parts) > 1
                /\ Len(user_parts) > 1
             THEN expected_parts[2] = user_parts[2]
        ELSE FALSE

\* rules 1 to 4 and the default, on a truthy expected_command
MatchRules(user_input, expected_command) ==
    LET user_norm == normalise_command(user_input)
        expected_norm == normalise_command(expected_command)
        user_parts == str_split(user_norm)
        expected_parts == str_split(expected_norm)
        user_base == IF user_parts /= <<>> THEN user_parts[1] ELSE <<>>
        expected_base == IF expected_parts /= <<>> THEN expected_parts[1] ELSE <<>>
    IN  IF user_norm = expected_norm THEN TRUE
        ELSE IF expected_norm = w_ls /\ user_base = w_ls THEN TRUE
        ELSE IF expected_norm = w_history /\ user_base = w_history THEN TRUE
        ELSE IF /\ expected_base = w_nano
                /\ user_base \in {w_nano, w_vi}
                /\ Len(expected_parts) > 1
                /\ Len(user_parts) > 1
             THEN expected_parts[2] = user_parts[2]
        ELSE FALSE

check_command(user_input, expected_command) ==
    IF NothingExpected(expected_command) THEN FALSE
    ELSE MatchRules(user_input, expected_command)

(***************************************************************************)
(* trainer.py: the state of one run of main().                             *)
(***************************************************************************)
VARIABLES
    pc,             \* where main() is: "start", "load", "await", "done", "crashed"
    levels_dir,     \* the levels/ directory as the run finds it
    levels,         \* the list load_levels() returned
    idx,            \* position of "for level in levels" (1-based), 0 before the loop
    log_file,       \* the log sink: its state and the lines written to it
    inputs_read,    \* number of input() calls that returned a line
    user_input,     \* the latest line read, stripped
    presented,      \* level numbers whose header was printed, in order
    console,        \* messages printed by the latest step
    matcher_calls,  \* calls of checker.check_command so far
    executions,     \* calls of subprocess.run so far
    probe           \* one call of check_command on its own

session_vars == <<pc, levels_dir, levels, idx, log_file, inputs_read, user_input,
                  presented, console, matcher_calls, executions>>
vars == <<pc, levels_dir, levels, idx, log_file, inputs_read, user_input,
          presented, console, matcher_calls, executions, probe>>

\* an allow-list that also holds an editor
safe_commands_with_vi ==
    {w_pwd, w_ls, w_whoami, w_echo, w_clear, w_date, w_history, w_vi}

\* the allow-list of commands main() runs
safe_commands == {w_pwd, w_ls, w_whoami, w_echo, w_clear, w_date, w_history}

(***************************************************************************)
(* The log sink.                                                           *)
(***************************************************************************)
LogLine(kind, number, text) == [kind |-> kind, number |-> number, text |-> text]
SessionStarted == LogLine("Session started at", 0, <<>>)
NoLevelsLoaded == LogLine("No levels loaded. Exiting.", 0, <<>>)
\* an input entry written without the level number
LevelInput_untagged(number, typed) == LogLine("Level input", 0, typed)

LevelInput(number, typed) == LogLine("Level input", number, typed)
UserExited == LogLine("User exited the session.", 0, <<>>)
SessionEnded == LogLine("Session ended at", 0, <<>>)

\* open(log_path, "a"): lines of earlier runs are not modelled
file_open == [state |-> "open", lines |-> <<>>]

\* log_file.write(line): only an open file takes the line
file_write(f, line) ==
    IF f.state = "open" THEN [f EXCEPT !.lines = Append(@, line)] ELSE f

\* log_file.close()
file_close(f) == [f EXCEPT !.state = "closed"]

\* a finally block that closes the sink before it writes
finally_block_close_first(f) == file_write(file_close(f), SessionEnded)

\* the finally block of main()
finally_block(f) == file_close(file_write(f, SessionEnded))

(***************************************************************************)
(* load_levels()                                                           *)
(***************************************************************************)
Level(number, expected_command, hint) ==
    [number |-> number, expected_command |-> expected_command, hint |-> hint]

\* a .json file of levels/: readable holds when open and json.load succeed
LevelFile(readable, data) == [readable |-> readable, data |-> data]

\* the loop over level_files: unreadable files are reported and skipped
RECURSIVE ReadLevelFiles(_)
ReadLevelFiles(files) ==
    IF files = <<>> THEN <<>>
    ELSE IF Head(files).readable
         THEN <<Head(files).data>> \o ReadLevelFiles(Tail(files))
         ELSE ReadLevelFiles(Tail(files))

\* x put into a list sorted by number, after the entries with an equal number
RECURSIVE InsertByNumber(_, _)
InsertByNumber(sorted, x) ==
    IF sorted = <<>> THEN <<x>>
    ELSE IF x.number < Head(sorted).number THEN <<x>> \o sorted
    ELSE <<Head(sorted)>> \o InsertByNumber(Tail(sorted), x)

\* list.sort(key=number): stable
RECURSIVE SortByNumber(_)
SortByNumber(list) ==
    IF list = <<>> THEN <<>>
    ELSE InsertByNumber(SortByNumber(SubSeq(list, 1, Len(list) - 1)), list[Len(list)])

load_levels(dir) == SortByNumber(ReadLevelFiles(dir.files))

(***************************************************************************)
(* main(): classification of a line and the demonstration run.             *)
(***************************************************************************)
\* the quit test without lower()
is_quit_case_sensitive(typed) == typed \in {w_exit, w_quit}

\* "if user_input.lower() in {"exit", "quit"}"
is_quit(typed) == str_lower(typed) \in {w_exit, w_quit}

\* the hint test without lower()
is_hint_case_sensitive(typed) == typed = w_hint

\* "if user_input.lower() == "hint""
is_hint(typed) == str_lower(typed) = w_hint

\* "base = user_input.split()[0] if user_input else """
base_of(typed) ==
    IF typed /= <<>> THEN str_split(typed)[1] ELSE <<>>

\* what subprocess.run(..., check=False) may do: return with status 0 or with
\* another status, or raise because the binary is absent or cannot be started
ExecOutcomes == {"status 0", "status non-zero", "FileNotFoundError", "OSError"}
ExecRaises(outcome) == outcome \in {"FileNotFoundError", "OSError"}

\* a handler that names subprocess.CalledProcessError only
except_CalledProcessError(outcome) == outcome = "CalledProcessError"

\* "except Exception as e: pass" around the run
except_Exception(outcome) == outcome \in {"FileNotFoundError", "OSError"}

\* a loop that steps over a level
next_index_skip(i) == i + 2

\* the level the for loop moves to after level i, printing its header
next_index(i) == i + 1

Msg(msg, text) == [msg |-> msg, text |-> text]

\* lines 178-185: captured output is printed, stdout then stderr
ExecOutput(outcome) ==
    IF outcome = "status 0" THEN <<Msg("stdout", <<>>)>>
    ELSE IF outcome = "status non-zero" THEN <<Msg("stderr", <<>>)>>
    ELSE <<>>

\* the header of level i, when there is one
Header(lvls, i) ==
    IF i <= Len(lvls) THEN <<Msg("** Level **", <<>>)>> ELSE <<>>

(***************************************************************************)
(* main(): the steps.                                                      *)
(***************************************************************************)
\* lines 95-101: the sink is opened and the session start written
OpenLog ==
    /\ pc = "start"
    /\ log_file' = file_write(file_open, SessionStarted)
    /\ pc' = "load"
    /\ UNCHANGED <<levels_dir, levels, idx, inputs_read, user_input, presented, console,
                   matcher_calls, executions, probe>>

\* line 104 raising: os.listdir on a missing levels/ is outside every try
LoadRaises ==
    /\ pc = "load"
    /\ ~levels_dir.exists
    /\ pc' = "crashed"
    /\ console' = <<Msg("Traceback", <<>>)>>
    /\ UNCHANGED <<levels_dir, levels, idx, log_file, inputs_read, user_input, presented,
                   matcher_calls, executions, probe>>

\* lines 104-109: nothing was loaded
LoadNoLevels ==
    /\ pc = "load"
    /\ levels_dir.exists
    /\ load_levels(levels_dir) = <<>>
    /\ console' = <<Msg("No levels found.", <<>>)>>
    /\ log_file' = file_close(file_write(log_file, NoLevelsLoaded))
    /\ pc' = "done"
    /\ UNCHANGED <<levels_dir, levels, idx, inputs_read, user_input, presented,
                   matcher_calls, executions, probe>>

\* lines 104-137: levels loaded, welcome and the first header printed
LoadLevels ==
    /\ pc = "load"
    /\ levels_dir.exists
    /\ load_levels(levels_dir) /= <<>>
    /\ levels' = load_levels(levels_dir)
    /\ idx' = 1
    /\ presented' = <<levels'[1].number>>
    /\ console' = <<Msg("Welcome", <<>>)>> \o Header(levels', 1)
    /\ pc' = "await"
    /\ UNCHANGED <<levels_dir, log_file, inputs_read, user_input, matcher_calls,
                   executions, probe>>

\* line 141 raising (end of input, interrupt): the finally block runs
InputRaises ==
    /\ pc = "await"
    /\ log_file' = finally_block(log_file)
    /\ console' = <<Msg("Traceback", <<>>)>>
    /\ pc' = "crashed"
    /\ UNCHANGED <<levels_dir, levels, idx, inputs_read, user_input, presented,
                   matcher_calls, executions, probe>>

\* lines 141-149: a quit token
ReadQuit(line) ==
    LET stripped == str_strip(line)
        level == levels[idx]
        logged == file_write(log_file, LevelInput(level.number, stripped))
    IN  /\ pc = "await"
        /\ inputs_read < MaxInputs
        /\ is_quit(stripped)
        /\ inputs_read' = inputs_read + 1
        /\ user_input' = stripped
        /\ console' = <<Msg("Exiting the LinuxTrainer. Goodbye!", <<>>)>>
        /\ log_file' = finally_block(file_write(logged, UserExited))
        /\ pc' = "done"
        /\ UNCHANGED <<levels_dir, levels, idx, presented, matcher_calls,
                       executions, probe>>

\* lines 141-158: a hint request
ReadHint(line) ==
    LET stripped == str_strip(line)
        level == levels[idx]
        logged == file_write(log_file, LevelInput(level.number, stripped))
    IN  /\ pc = "await"
        /\ inputs_read < MaxInputs
        /\ ~is_quit(stripped)
        /\ is_hint(stripped)
        /\ inputs_read' = inputs_read + 1
        /\ user_input' = stripped
        /\ log_file' = logged
        /\ console' = IF level.hint /= <<>>
                      THEN <<Msg("Hint:", level.hint)>>
                      ELSE <<Msg("No hint available for this level.", <<>>)>>
        /\ UNCHANGED <<pc, levels_dir, levels, idx, presented, matcher_calls,
                       executions, probe>>

\* lines 141-163 and 200-203: the matcher rejects the line
ReadIncorrect(line) ==
    LET stripped == str_strip(line)
        level == levels[idx]
        logged == file_write(log_file, LevelInput(level.number, stripped))
    IN  /\ pc = "await"
        /\ inputs_read < MaxInputs
        /\ ~is_quit(stripped)
        /\ ~is_hint(stripped)
        /\ ~check_command(stripped, level.expected_command)
        /\ inputs_read' = inputs_read + 1
        /\ user_input' = stripped
        /\ log_file' = logged
        /\ matcher_calls' = Append(matcher_calls,
               [user_input |-> stripped,
                expected_command |-> level.expected_command,
                verdict |-> FALSE])
        /\ console' = <<Msg("Oops, that's not the right command.", <<>>)>>
        /\ UNCHANGED <<pc, levels_dir, levels, idx, presented, executions, probe>>

\* lines 141-199 and 206-214: the matcher accepts the line; outcome is what
\* subprocess.run does when the base command is on the allow-list
ReadCorrect(line, outcome) ==
    LET stripped == str_strip(line)
        level == levels[idx]
        logged == file_write(log_file, LevelInput(level.number, stripped))
        runs == base_of(stripped) \in safe_commands
        escapes == runs /\ ExecRaises(outcome) /\ ~except_Exception(outcome)
        last == next_index(idx) > Len(levels)
    IN  /\ pc = "await"
        /\ inputs_read < MaxInputs
        /\ ~is_quit(stripped)
        /\ ~is_hint(stripped)
        /\ check_command(stripped, level.expected_command)
        /\ runs <=> outcome /= "not run"
        /\ inputs_read' = inputs_read + 1
        /\ user_input' = stripped
        /\ matcher_calls' = Append(matcher_calls,
               [user_input |-> stripped,
                expected_command |-> level.expected_command,
                verdict |-> TRUE])
        /\ executions' = IF runs
                         THEN Append(executions,
                                  [argv |-> str_split(stripped), outcome |-> outcome])
                         ELSE executions
        /\ IF escapes
           THEN /\ console' = <<Msg("Correct! Well done.", <<>>),
                                Msg("Traceback", <<>>)>>
                /\ log_file' = finally_block(logged)
                /\ pc' = "crashed"
                /\ UNCHANGED <<idx, presented>>
           ELSE /\ console' = <<Msg("Correct! Well done.", <<>>)>>
                       \o (IF runs THEN ExecOutput(outcome)
                           ELSE <<Msg("(Command execution skipped for safety.)", <<>>)>>)
                       \o (IF last
                           THEN <<Msg("Congratulations!", <<>>)>>
                           ELSE Header(levels, next_index(idx)))
                /\ idx' = next_index(idx)
                /\ presented' = IF last THEN presented
                                ELSE Append(presented, levels[next_index(idx)].number)
                /\ log_file' = IF last THEN finally_block(logged) ELSE logged
                /\ pc' = IF last THEN "done" ELSE "await"
        /\ UNCHANGED <<levels_dir, levels, probe>>

(***************************************************************************)
(* The runs explored: what levels/ holds and what the user types.          *)
(***************************************************************************)
Words(toks) == str_join(SP, toks)

NoHint == <<>>
SomeHint == <<"?">>

LevelDirs ==
    { \* levels/ is missing
      [exists |-> FALSE, files |-> <<>>],
      \* levels/ is empty
      [exists |-> TRUE, files |-> <<>>],
      \* levels/ holds one file, which does not parse
      [exists |-> TRUE,
       files |-> <<LevelFile(FALSE, Level(1, w_pwd, NoHint))>>],
      \* two levels listed out of order, one broken file between them
      [exists |-> TRUE,
       files |-> <<LevelFile(TRUE, Level(2, w_ls, NoHint)),
                   LevelFile(FALSE, Level(3, w_date, NoHint)),
                   LevelFile(TRUE, Level(1, w_pwd, SomeHint))>>],
      \* an editor level, then a level whose answer is a quit token
      [exists |-> TRUE,
       files |-> <<LevelFile(TRUE, Level(1, Words(<<w_nano, w_f>>), SomeHint)),
                   LevelFile(TRUE, Level(2, w_exit, NoHint))>>],
      \* a level whose answer is the hint token, then a history level
      [exists |-> TRUE,
       files |-> <<LevelFile(TRUE, Level(5, w_history, NoHint)),
                   LevelFile(TRUE, Level(4, w_hint, NoHint))>>],
      \* a history level and a level without expected_command
      [exists |-> TRUE,
       files |-> <<LevelFile(TRUE, Level(1, w_history, SomeHint)),
                   LevelFile(TRUE, Level(2, None, SomeHint))>>],
      \* expected_command is ""
      [exists |-> TRUE,
       files |-> <<LevelFile(TRUE, Level(1, <<>>, NoHint))>>],
      \* expected_command is blank, then an ordinary level
      [exists |-> TRUE,
       files |-> <<LevelFile(TRUE, Level(1, SP, NoHint)),
                   LevelFile(TRUE, Level(1, w_ls, NoHint))>>] }

\* the lines input() may return
InputLines ==
    { w_exit,
      <<"Q", "U", "I", "T">>,
      w_hint,
      SP \o <<"H", "i", "n", "t">>,
      <<>>,
      w_pwd,
      w_ls,
      Words(<<w_ls, w_l>>),
      w_ls \o SP \o SP \o w_l \o SP,
      Words(<<w_history, w_5>>),
      Words(<<w_vi, w_f>>),
      w_wrong }

NoProbe == [user_input |-> <<>>, expected_command |-> None,
            done |-> FALSE, normalised |-> <<>>, result |-> FALSE]

\* before main() runs
InitSession ==
    /\ pc = "start"
    /\ levels = <<>>
    /\ idx = 0
    /\ log_file = [state |-> "unopened", lines |-> <<>>]
    /\ inputs_read = 0
    /\ user_input = <<>>
    /\ presented = <<>>
    /\ console = <<>>
    /\ matcher_calls = <<>>
    /\ executions = <<>>

Init ==
    /\ InitSession
    /\ levels_dir \in LevelDirs
    /\ probe = NoProbe

ReadLine ==
    \E line \in InputLines :
        \/ ReadQuit(line)
        \/ ReadHint(line)
        \/ ReadIncorrect(line)
        \/ \E outcome \in ExecOutcomes \cup {"not run"} : ReadCorrect(line, outcome)

Next ==
    \/ OpenLog
    \/ LoadRaises
    \/ LoadNoLevels
    \/ LoadLevels
    \/ InputRaises
    \/ ReadLine

Spec == Init /\ [][Next]_vars

(***************************************************************************)
(* check_command on its own: one call on a line and an expected command.   *)
(***************************************************************************)
TokenVocabulary == {w_ls, w_history, w_nano, w_vi, w_f, w_g}

TokenSeqs == UNION {[1..n -> TokenVocabulary] : n \in 0..MaxTokens}

\* how the tokens of a line are laid out: before, between and after them
Layouts == { <<<<>>, SP, <<>>>>, <<SP, SP \o SP, SP>>, <<<<>>, TAB, TAB>> }

Laid(layout, toks) == layout[1] \o str_join(layout[2], toks) \o layout[3]

ProbeInputs == {Laid(layout, toks) : layout \in Layouts, toks \in TokenSeqs}

ProbeExpected ==
    { None, <<>>, SP, SP \o TAB,
      w_ls, Words(<<w_ls, w_f>>),
      w_history, Words(<<w_history, w_f>>), SP \o w_history \o SP,
      w_nano, Words(<<w_nano, w_f>>), w_nano \o SP \o SP \o w_f \o SP \o w_g,
      Words(<<w_vi, w_f>>),
      w_f, Words(<<w_f, w_g>>) }

InitMatcher ==
    /\ InitSession
    /\ levels_dir = [exists |-> FALSE, files |-> <<>>]
    /\ probe \in [user_input : ProbeInputs, expected_command : ProbeExpected,
                  done : {FALSE}, normalised : {<<>>}, result : {FALSE}]

\* normalised = checker.normalise_command(user_input)
\* result = checker.check_command(user_input, expected_command)
Probe ==
    /\ ~probe.done
    /\ probe' = [probe EXCEPT !.done = TRUE,
                              !.normalised = normalise_command(probe.user_input),
                              !.result = check_command(probe.user_input,
                                                       probe.expected_command)]
    /\ UNCHANGED session_vars

NextMatcher == Probe

SpecMatcher == InitMatcher /\ [][NextMatcher]_vars

(***************************************************************************)
(* Properties.                                                             *)
(***************************************************************************)
Terminal == pc \in {"done", "crashed"}
LogLines == log_file.lines
LastLine(lines) == lines[Len(lines)]
CountOf(lines, entry) == Cardinality({i \in 1..Len(lines) : lines[i] = entry})

\* a line was read in this step
LineRead == inputs_read' = inputs_read + 1
\* the matcher was called in this step, and what it answered
MatcherCalled == Len(matcher_calls') = Len(matcher_calls) + 1
MatcherAccepted == MatcherCalled /\ LastLine(matcher_calls').verdict
\* subprocess.run was called in this step
Executed == Len(executions') = Len(executions) + 1

QuitText(text) == str_lower(text) \in {w_exit, w_quit}
HintText(text) == str_lower(text) = w_hint
FirstToken(text) == IF str_split(text) = <<>> THEN <<>> ELSE str_split(text)[1]
SkippedMsg == Msg("(Command execution skipped for safety.)", <<>>)
Shown(m) == \E i \in 1..Len(console') : console'[i] = m

\* C1: in every terminal state of main() the log sink has been closed,
\* whichever way main() ended after opening it.
C1_SinkReleasedOnEveryExit ==
    Terminal => log_file.state = "closed"

\* C2: when the session loop has ended (quit, all levels solved, or an error
\* raised inside the loop) the log holds the session-end entry exactly once,
\* as its last entry, and the sink is closed.
C2_SessionEndWrittenOnce ==
    (Terminal /\ levels /= <<>>) =>
        /\ log_file.state = "closed"
        /\ CountOf(LogLines, SessionEnded) = 1
        /\ LastLine(LogLines) = SessionEnded

\* C2 witness: the loop ended by an error after two lines had been read.
C2_Witness ==
    /\ pc = "crashed"
    /\ levels /= <<>>
    /\ inputs_read = 2
    /\ LastLine(LogLines) = SessionEnded

\* C3: when no level was loaded, main() ends without presenting a level or
\* reading a line, and the session-end entry is the last line of the closed log.
C3_NoLevelsStillFinalizes ==
    (pc = "done" /\ levels = <<>>) =>
        /\ inputs_read = 0
        /\ presented = <<>>
        /\ log_file.state = "closed"
        /\ LastLine(LogLines) = SessionEnded

\* C4: a step that reads a quit token (any case) ends the session at once:
\* no matcher call, no execution, the index stays, the log receives the input
\* entry, the quit event and the session end, and no line is read afterwards.
C4_Step ==
    /\ (LineRead /\ QuitText(user_input')) =>
            /\ pc' = "done"
            /\ idx' = idx
            /\ presented' = presented
            /\ matcher_calls' = matcher_calls
            /\ executions' = executions
            /\ log_file'.state = "closed"
            /\ log_file'.lines = LogLines \o
                   <<LevelInput(levels[idx].number, user_input'),
                     UserExited, SessionEnded>>
    /\ Terminal => inputs_read' = inputs_read

C4_QuitTerminatesImmediately == [][C4_Step]_vars

\* C4 witness: after an earlier answer, "QUIT" was typed on a level whose
\* expected_command is "exit".
C4_Witness ==
    /\ pc = "done"
    /\ inputs_read >= 2
    /\ idx = 2
    /\ levels[idx].expected_command = w_exit
    /\ user_input = <<"Q", "U", "I", "T">>
    /\ LastLine(matcher_calls).expected_command /= w_exit

\* C5: during the session the level list does not change, the index never
\* decreases and moves only by +1 on a step where the matcher accepted the
\* line against the current level's expected_command; the headers shown are
\* those of the levels up to the index, in list order; accepting on the last
\* level ends the session.
C5_Step ==
    pc = "await" =>
        /\ levels' = levels
        /\ idx' >= idx
        /\ idx' /= idx =>
              /\ idx' = idx + 1
              /\ MatcherAccepted
              /\ LastLine(matcher_calls').user_input = user_input'
              /\ LastLine(matcher_calls').expected_command = levels[idx].expected_command
              /\ check_command(user_input', levels[idx].expected_command)
        /\ (MatcherAccepted /\ idx = Len(levels)) => pc' = "done"
        /\ (MatcherAccepted /\ idx < Len(levels)) => pc' = "await"
        /\ pc' = "await" => presented' = [i \in 1..idx' |-> levels[i].number]

C5_IndexOnlyAdvancesOnAccept == [][C5_Step]_vars

\* C5 witness: both levels of a two-level session solved, with a line in
\* between that did not advance.
C5_Witness ==
    /\ pc = "done"
    /\ Len(levels) = 2
    /\ idx = 3
    /\ inputs_read >= 3
    /\ presented = <<levels[1].number, levels[2].number>>

\* C6: a step that reads "hint" (any case) calls no matcher, keeps index,
\* state and levels, and shows the hint or the fallback; a step that reads a
\* line that is neither quit nor hint calls the matcher with that line and
\* the current level's expected_command.
C6_Step ==
    LineRead =>
        /\ HintText(user_input') =>
              /\ matcher_calls' = matcher_calls
              /\ executions' = executions
              /\ idx' = idx
              /\ pc = "await" /\ pc' = "await"
              /\ levels' = levels
              /\ presented' = presented
              /\ console' = IF levels[idx].hint /= <<>>
                            THEN <<Msg("Hint:", levels[idx].hint)>>
                            ELSE <<Msg("No hint available for this level.", <<>>)>>
        /\ (~HintText(user_input') /\ ~QuitText(user_input')) =>
              /\ MatcherCalled
              /\ SubSeq(matcher_calls', 1, Len(matcher_calls)) = matcher_calls
              /\ LastLine(matcher_calls').user_input = user_input'
              /\ LastLine(matcher_calls').expected_command = levels[idx].expected_command

C6_HintNeverMatched == [][C6_Step]_vars

\* C6 witness: " Hint" typed on a level whose expected_command is "hint" and
\* which has no hint text.
C6_Witness ==
    /\ pc = "await"
    /\ inputs_read >= 1
    /\ levels[idx].expected_command = w_hint
    /\ user_input = <<"H", "i", "n", "t">>
    /\ console = <<Msg("No hint available for this level.", <<>>)>>
    /\ matcher_calls = <<>>

\* C7: a step on which the matcher accepted advances the index by one and
\* leaves the session awaiting the next level, or done after the last one,
\* whatever subprocess.run did or whether it was called at all.
C7_Step ==
    /\ MatcherAccepted =>
          /\ idx' = idx + 1
          /\ pc' = IF idx = Len(levels) THEN "done" ELSE "await"
    /\ Executed =>
          /\ MatcherAccepted
          /\ pc' /= "crashed"
          /\ idx' = idx + 1

C7_ProgressIgnoresExecution == [][C7_Step]_vars

\* C7 witness: subprocess.run raised for a missing binary and the session
\* went on to the next level.
C7_Witness ==
    /\ pc = "await"
    /\ idx = 2
    /\ executions /= <<>>
    /\ LastLine(executions).outcome = "FileNotFoundError"

C8_AllowList == {w_pwd, w_ls, w_whoami, w_echo, w_clear, w_date, w_history}

\* C8: subprocess.run is called only on a step where the matcher accepted,
\* and then exactly when the first whitespace-delimited token of the line is
\* on the allow-list, with the split line as argv; an accepted line that is
\* not on the list is reported as skipped.
C8_Step ==
    /\ executions' /= executions =>
          /\ Executed
          /\ SubSeq(executions', 1, Len(executions)) = executions
          /\ MatcherAccepted
          /\ LastLine(executions').argv = str_split(user_input')
          /\ ~Shown(SkippedMsg)
    /\ MatcherAccepted =>
          /\ Executed <=> FirstToken(user_input') \in C8_AllowList
          /\ ~Executed => Shown(SkippedMsg)

C8_ExecutionOnlyIfAllowListed == [][C8_Step]_vars

\* C8 witness: "vi f" accepted for "nano f", nothing executed, skip reported.
C8_Witness ==
    /\ pc = "await"
    /\ idx = 2
    /\ user_input = Words(<<w_vi, w_f>>)
    /\ levels[1].expected_command = Words(<<w_nano, w_f>>)
    /\ executions = <<>>
    /\ \E i \in 1..Len(console) : console[i] = SkippedMsg

\* C9: check_command answers False for every line when expected_command is
\* None or "".
C9_NothingExpectedNeverMatches ==
    (probe.done /\ probe.expected_command \in {None, <<>>}) => ~probe.result

\* C9 witness: check_command was called on "" with expected_command "".
C9_Witness ==
    /\ probe.done
    /\ probe.expected_command = <<>>
    /\ probe.user_input = <<>>

\* C10: a line that is empty after normalisation matches no expected_command.
C10_EmptyInputNeverMatches ==
    (probe.done /\ normalise_command(probe.user_input) = <<>>) => ~probe.result

\* the tokens of a line and of an expected command
Tokens(text) == str_split(text)
ProbeUser == probe.user_input
ProbeWanted == probe.expected_command

\* C11: with c one of ls, history: when the normalised expected command is c,
\* every line whose first token is c matches; when it is c followed by
\* arguments, a line matches exactly when it equals it after normalisation.
C11_ToleranceOneDirectional ==
    (probe.done /\ Truthy(ProbeWanted) /\ FirstToken(ProbeWanted) \in {w_ls, w_history}) =>
        LET c == FirstToken(ProbeWanted)
        IN  IF Len(Tokens(ProbeWanted)) = 1
            THEN FirstToken(ProbeUser) = c => probe.result
            ELSE probe.result <=>
                     normalise_command(ProbeUser) = normalise_command(ProbeWanted)

\* C11 witness: bare "history" was checked against "history f" and rejected.
C11_Witness ==
    /\ probe.done
    /\ ProbeWanted = Words(<<w_history, w_f>>)
    /\ ProbeUser = w_history
    /\ ~probe.result

\* C12: when the expected command starts with nano and the line differs from
\* it after normalisation, the line matches exactly when it starts with nano
\* or vi, both have at least two tokens and their second tokens are equal.
C12_EditorSubstitution ==
    (/\ probe.done
     /\ Truthy(ProbeWanted)
     /\ FirstToken(ProbeWanted) = w_nano
     /\ normalise_command(ProbeUser) /= normalise_command(ProbeWanted)) =>
        (probe.result <=>
            /\ FirstToken(ProbeUser) \in {w_nano, w_vi}
            /\ Len(Tokens(ProbeUser)) >= 2
            /\ Len(Tokens(ProbeWanted)) >= 2
            /\ Tokens(ProbeUser)[2] = Tokens(ProbeWanted)[2])

\* C12 witness: "vi f f" was accepted for "nano  f g": the third tokens differ.
C12_Witness ==
    /\ probe.done
    /\ probe.result
    /\ Tokens(ProbeWanted) = <<w_nano, w_f, w_g>>
    /\ Tokens(ProbeUser) = <<w_vi, w_f, w_f>>

\* C13: a line that matches has the first token of the expected command, or
\* starts with vi where the expected command starts with nano.
C13_UnrelatedBaseNeverMatches ==
    (probe.done /\ probe.result) =>
        \/ FirstToken(ProbeUser) = FirstToken(ProbeWanted)
        \/ FirstToken(ProbeWanted) = w_nano /\ FirstToken(ProbeUser) = w_vi

\* C13 witness: a line with arguments was accepted for bare "ls".
C13_Witness ==
    /\ probe.done
    /\ probe.result
    /\ ProbeWanted = w_ls
    /\ Len(Tokens(ProbeUser)) = 2

\* C14: the normalised line is a fixed point of normalisation, has no
\* whitespace at either end and no two whitespace characters in a row; and
\* the same tokens laid out with other whitespace get the same verdict.
C14_WhitespaceNeverDecides ==
    probe.done =>
        LET n == probe.normalised
        IN  /\ normalise_command(n) = n
            /\ n /= <<>> => (n[1] \notin Whitespace /\ n[Len(n)] \notin Whitespace)
            /\ \A i \in 1..(Len(n) - 1) :
                   ~(n[i] \in Whitespace /\ n[i + 1] \in Whitespace)
            /\ \A layout \in Layouts :
                   LET other == Laid(layout, Tokens(ProbeUser))
                   IN  normalise_command(other) = n =>
                           check_command(other, ProbeWanted) = probe.result

\* C14 witness: " ls  f " was normalised to "ls f" and accepted for "ls f".
C14_Witness ==
    /\ probe.done
    /\ ProbeUser = SP \o w_ls \o SP \o SP \o w_f \o SP
    /\ probe.normalised = Words(<<w_ls, w_f>>)
    /\ ProbeWanted = Words(<<w_ls, w_f>>)
    /\ probe.result

\* the lines logged as input so far, in order
RECURSIVE TypedOf(_)
TypedOf(lines) ==
    IF lines = <<>> THEN <<>>
    ELSE IF Head(lines).kind = "Level input"
         THEN <<Head(lines).text>> \o TypedOf(Tail(lines))
         ELSE TypedOf(Tail(lines))
Typed == TypedOf(LogLines)
MatcherRejected == MatcherCalled /\ ~LastLine(matcher_calls').verdict

\* the session of the end-to-end example
TraceLevels ==
    /\ Len(levels) = 2
    /\ levels[1].number = 1 /\ levels[1].expected_command = w_pwd
    /\ levels[2].number = 2 /\ levels[2].expected_command = w_ls
TraceInputs == <<w_wrong, w_hint, w_pwd, Words(<<w_ls, w_l>>)>>
TraceIndex == <<1, 1, 2, 3>>

\* after the first n lines of the example the session is on the level the
\* example names, and complete after the fourth
TraceFollowed ==
    (/\ pc \in {"await", "done"}
     /\ TraceLevels
     /\ Typed /= <<>>
     /\ Len(Typed) <= Len(TraceInputs)
     /\ Typed = SubSeq(TraceInputs, 1, Len(Typed))) =>
        /\ idx = TraceIndex[Len(Typed)]
        /\ pc = IF Len(Typed) = Len(TraceInputs) THEN "done" ELSE "await"

\* C15: each step consumes one line; a rejected line and a hint request keep
\* the index, an accepted line advances it by one and completes the session
\* on the last level, after which no line is read; with levels [1: pwd, 2: ls]
\* and lines wrong, hint, pwd, ls -l the level is 1, 1, 2, complete.
C15_Step ==
    /\ LineRead =>
          /\ Typed' = Append(Typed, user_input')
          /\ HintText(user_input') => (idx' = idx /\ pc' = "await")
          /\ MatcherRejected => (idx' = idx /\ pc' = "await")
          /\ MatcherAccepted =>
                /\ idx' = idx + 1
                /\ pc' = IF idx = Len(levels) THEN "done" ELSE "await"
    /\ Terminal => inputs_read' = inputs_read
    /\ TraceFollowed'

C15_EndToEndTrace == [][C15_Step]_vars

\* C15 witness: the example session, complete after its four lines.
C15_Witness ==
    /\ TraceLevels
    /\ Typed = TraceInputs
    /\ pc = "done"
    /\ idx = 3
    /\ inputs_read = 4

\* C16: the log only grows, starts with the session start, receives for each
\* line read one input entry carrying the current level's number and the
\* line, whatever the line is, and a quit adds the quit event right after it;
\* no other step adds an input entry.
C16_Step ==
    /\ SubSeq(log_file'.lines, 1, Len(LogLines)) = LogLines
    /\ log_file'.lines /= <<>> => log_file'.lines[1] = SessionStarted
    /\ LineRead =>
          /\ Len(log_file'.lines) > Len(LogLines)
          /\ log_file'.lines[Len(LogLines) + 1] =
                 [kind |-> "Level input", number |-> levels[idx].number,
                  text |-> user_input']
          /\ Typed' = Append(Typed, user_input')
          /\ QuitText(user_input') =>
                /\ Len(log_file'.lines) > Len(LogLines) + 1
                /\ log_file'.lines[Len(LogLines) + 2] = UserExited
          /\ ~QuitText(user_input') => CountOf(log_file'.lines, UserExited) = 0
    /\ ~LineRead => Typed' = Typed

C16_LogRecordsEveryInput == [][C16_Step]_vars

\* C16 witness: a hint request, a rejected line and a quit were logged on the
\* second level of a session, after the accepted line of the first.
C16_Witness ==
    /\ pc = "done"
    /\ inputs_read = 4
    /\ idx = 2
    /\ levels[2].number = 2
    /\ HintText(Typed[2]) /\ Typed[3] = w_wrong /\ QuitText(Typed[4])
    /\ LogLines[3].number = 2
    /\ LogLines[Len(LogLines) - 1] = UserExited

\* the line that is the level's expected command typed verbatim
Verbatim(level) == str_strip(level.expected_command)
TypedVerbatim ==
    /\ pc = "await"
    /\ LineRead
    /\ Truthy(levels[idx].expected_command)
    /\ user_input' = Verbatim(levels[idx])
\* the expected command reads as a quit token or as a hint request
Reserved(level) == QuitText(Verbatim(level)) \/ HintText(Verbatim(level))

\* C17 as stated: on every level with a non-empty expected_command, typing
\* that command verbatim is accepted and advances the index.
C17_VerbatimAlwaysSolves ==
    [][TypedVerbatim => (MatcherAccepted /\ idx' = idx + 1)]_vars

\* C17: on every level with a non-empty expected_command that is neither a
\* quit token nor the hint token, typing that command verbatim is accepted
\* and advances the index.
C17_VerbatimSolvesUnlessReserved ==
    [][(TypedVerbatim /\ ~Reserved(levels[idx])) =>
           (MatcherAccepted /\ idx' = idx + 1)]_vars

\* C17 witness: a two-level session completed by typing each expected
\* command verbatim.
C17_Witness ==
    /\ pc = "done"
    /\ Len(levels) = 2
    /\ idx = 3
    /\ Typed = <<levels[1].expected_command, levels[2].expected_command>>

====
